---- MODULE Spec2Model ----
(***************************************************************************)
(* partner_multi_relation_tabs: res.partner gets one pair of fields and    *)
(* one form page per configured tab.                                       *)
(*                                                                         *)
(* State of one server process: the class attributes of ResPartner         *)
(* (_tab_modification_sequence, _fields), the tab source in the database   *)
(* (tabs, revision), and ret, what the last call returned to its caller    *)
(* together with the _add_field calls it made.  One action per entry point *)
(* (browse, fields_view_get) and per change of the tab source.             *)
(*                                                                         *)
(* SpecProcs runs browse in several server processes, each with its own    *)
(* class attributes (procs).  SpecRace runs _update_tab_fields in two      *)
(* threads of one process, one statement at a time (threads).              *)
(***************************************************************************)
EXTENDS Integers, Sequences, FiniteSets, TLC

VARIABLES
    tabs,                        \* res.partner.tab: ids of the tabs, in get_tabs() order
    revision,                    \* res.partner.tab.sequence: value of get_sequence()
    _tab_modification_sequence,  \* ResPartner._tab_modification_sequence
    _fields,                     \* ResPartner._fields: field name -> field
    ret,                         \* outcome of the last call, as its caller sees it
    procs,                       \* per server process: its own ResPartner class attributes
    threads                      \* per thread: where it is in _update_tab_fields

vars == <<tabs, revision, _tab_modification_sequence, _fields, ret, procs, threads>>

-----------------------------------------------------------------------------
(* Bounds *)

MaxTabs == 2         \* tab ids are 1..MaxTabs
MaxRevision == 3     \* the source stops changing at this revision

TabIds == 1..MaxTabs

\* Revisions a fresh database may report (the counter's first value is not
\* in the sources at hand: both a counter starting at the class default and
\* one starting above it are kept).
InitRevisions == {0, 1}

-----------------------------------------------------------------------------
(* The tab source: res.partner.tab and res.partner.tab.sequence *)

TabNames == <<"Suppliers", "Board", "Members", "Family", "Alumni">>

\* tab.tab_record.name
TabName(tab) == TabNames[tab]

\* tab.get_fieldname(): derived from the tab's id alone
get_fieldname(tab) == "relation_ids_tab_" \o ToString(tab)

\* tab.get_visible_fieldname()
get_visible_fieldname(tab) == get_fieldname(tab) \o "_visible"

\* What one request reads from the source (one database snapshot).
Source == [revision |-> revision, tabs |-> tabs]

\* The class state handed to the methods below; written lists the names
\* the call has bound with _add_field so far, in call order.
Cls == [tab_modification_sequence |-> _tab_modification_sequence,
        fields |-> _fields,
        written |-> <<>>]

Range(s) == {s[i] : i \in 1..Len(s)}

\* The names of the field pairs of a set of tabs.
PairNames(ts) == {get_fieldname(t) : t \in ts} \cup {get_visible_fieldname(t) : t \in ts}

-----------------------------------------------------------------------------
(* Schema: add_field *)

\* A field: what fields.Boolean(...) / fields.One2many(...) is built from.
FieldObj(type, tab, string, compute) ==
    [type |-> type, tab |-> tab, string |-> string, compute |-> compute]

\* models.Model._add_field: binds name to field, whatever was bound before.
_add_field(cls, name, field) ==
    [cls EXCEPT !.fields = [n \in DOMAIN @ \cup {name} |->
                               IF n = name THEN field ELSE @[n]],
                !.written = Append(@, name)]

\* Faulty variant: the visibility field is not bound.
add_field_relation_only(cls, tab) ==
    _add_field(cls, get_fieldname(tab),
               FieldObj("one2many", tab, TabName(tab), ""))

\* The registration of visible_field in _field_computed is carried by the
\* field's compute attribute.
add_field(cls, tab) ==
    LET visible_field == FieldObj("boolean", tab, "", "_compute_tabs_visibility")
        cls1 == _add_field(cls, get_visible_fieldname(tab), visible_field)
        tab_field == FieldObj("one2many", tab, TabName(tab), "")
    IN  _add_field(cls1, get_fieldname(tab), tab_field)

-----------------------------------------------------------------------------
(* Schema synchronisation: _update_tab_fields *)

_set_tab_modification_sequence(cls, tab_modification_sequence) ==
    [cls EXCEPT !.tab_modification_sequence = tab_modification_sequence]

\* Faulty variant: the comparison with the cached revision is lost.
_need_tab_update_always(cls, tab_modification_sequence) ==
    [need |-> TRUE,
     cls |-> _set_tab_modification_sequence(cls, tab_modification_sequence)]

_need_tab_update(cls, tab_modification_sequence) ==
    IF tab_modification_sequence = cls.tab_modification_sequence
    THEN [need |-> FALSE, cls |-> cls]
    ELSE [need |-> TRUE,
          cls |-> _set_tab_modification_sequence(cls, tab_modification_sequence)]

\* Faulty variant: the loop adds every tab without looking at _fields.
RECURSIVE UpdateLoop_unchecked(_, _)
UpdateLoop_unchecked(cls, ts) ==
    IF ts = <<>> THEN cls
    ELSE UpdateLoop_unchecked(add_field(cls, Head(ts)), Tail(ts))

\* The loop of _update_tab_fields over the tabs ts.
RECURSIVE UpdateLoop(_, _)
UpdateLoop(cls, ts) ==
    IF ts = <<>> THEN cls
    ELSE LET tab == Head(ts)
             fieldname == get_fieldname(tab)
         IN  UpdateLoop(IF fieldname \notin DOMAIN cls.fields
                        THEN add_field(cls, tab)
                        ELSE cls,
                        Tail(ts))

\* Faulty variant: the test of _need_tab_update is inverted.
_update_tab_fields_inverted(cls, src, fail) ==
    IF fail = "get_sequence"
    THEN [cls |-> cls, raised |-> TRUE, walked |-> FALSE]
    ELSE LET need == _need_tab_update(cls, src.revision)
         IN  IF need.need
             THEN [cls |-> need.cls, raised |-> FALSE, walked |-> FALSE]
             ELSE IF fail = "get_tabs"
             THEN [cls |-> need.cls, raised |-> TRUE, walked |-> FALSE]
             ELSE [cls |-> UpdateLoop(need.cls, src.tabs),
                   raised |-> FALSE, walked |-> TRUE]

\* Faulty variant: the walk also drops the pairs of the tabs that left the
\* source.
_update_tab_fields_pruning(cls, src, fail) ==
    IF fail = "get_sequence"
    THEN [cls |-> cls, raised |-> TRUE, walked |-> FALSE]
    ELSE LET need == _need_tab_update(cls, src.revision)
             stale == PairNames(TabIds \ Range(src.tabs))
             walk == UpdateLoop(need.cls, src.tabs)
         IN  IF ~need.need
             THEN [cls |-> need.cls, raised |-> FALSE, walked |-> FALSE]
             ELSE IF fail = "get_tabs"
             THEN [cls |-> need.cls, raised |-> TRUE, walked |-> FALSE]
             ELSE [cls |-> [walk EXCEPT !.fields =
                                [n \in DOMAIN @ \ stale |-> @[n]]],
                   raised |-> FALSE, walked |-> TRUE]

\* src is what the source answers; fail names the call to the source that
\* raises ("none", "get_sequence", "get_tabs").
_update_tab_fields(cls, src, fail) ==
    IF fail = "get_sequence"
    THEN [cls |-> cls, raised |-> TRUE, walked |-> FALSE]
    ELSE LET need == _need_tab_update(cls, src.revision)
         IN  IF ~need.need
             THEN [cls |-> need.cls, raised |-> FALSE, walked |-> FALSE]
             ELSE IF fail = "get_tabs"
             THEN [cls |-> need.cls, raised |-> TRUE, walked |-> FALSE]
             ELSE [cls |-> UpdateLoop(need.cls, src.tabs),
                   raised |-> FALSE, walked |-> TRUE]

\* models.Model.browse: the recordset of the given ids.
super_browse(arg) == [model |-> "res.partner", ids |-> arg]

\* Faulty variant: the records are returned without _update_tab_fields.
browse_unsynced(cls, src, arg, fail) ==
    [cls |-> cls, raised |-> FALSE, walked |-> FALSE, records |-> super_browse(arg)]

\* browse: _update_tab_fields, then super().browse; an exception of the
\* first leaves no records.
browse(cls, src, arg, fail) ==
    LET update == _update_tab_fields(cls, src, fail)
    IN  IF update.raised
        THEN [cls |-> update.cls, raised |-> TRUE, walked |-> update.walked,
              records |-> <<>>]
        ELSE [cls |-> update.cls, raised |-> FALSE, walked |-> update.walked,
              records |-> super_browse(arg)]

-----------------------------------------------------------------------------
(* The form view: an element tree *)

\* An element.  invisible is "" (no condition), "True", or, on a tab's page,
\* the name of the boolean field that shows the page.
Node(tag, name, invisible, kids) ==
    [tag |-> tag, name |-> name, invisible |-> invisible, kids |-> kids]

FieldNode(name) == Node("field", name, "", <<>>)
Page(name, kids) == Node("page", name, "", kids)
Notebook(pages) == Node("notebook", "", "", pages)
Form(kids) == Node("form", "", "", kids)

\* An element is addressed by its path: the child indexes from the root.
RECURSIVE NodeAt(_, _)
NodeAt(node, path) ==
    IF path = <<>> THEN node ELSE NodeAt(node.kids[Head(path)], Tail(path))

\* The paths of the descendants of the element at path, in document order.
RECURSIVE Descendants(_, _)
Descendants(node, path) ==
    LET RECURSIVE From(_)
        From(i) == IF i > Len(node.kids) THEN <<>>
                   ELSE <<Append(path, i)>>
                        \o Descendants(node.kids[i], Append(path, i))
                        \o From(i + 1)
    IN  From(1)

Front(path) == SubSeq(path, 1, Len(path) - 1)

\* view.xpath("//page[last()]"): every page that is the last page among the
\* children of its own parent, in document order.
xpath_last_pages(view) ==
    LET IsLast(p) ==
            LET sibs == NodeAt(view, Front(p)).kids
                i == p[Len(p)]
            IN  /\ sibs[i].tag = "page"
                /\ \A j \in (i + 1)..Len(sibs) : sibs[j].tag # "page"
    IN  SelectSeq(Descendants(view, <<>>), IsLast)

\* view.xpath('//field[@name="id"]')
xpath_field_id(view) ==
    LET IsId(p) == NodeAt(view, p).tag = "field" /\ NodeAt(view, p).name = "id"
    IN  SelectSeq(Descendants(view, <<>>), IsId)

\* view.append(element)
append(view, element) == [view EXCEPT !.kids = Append(@, element)]

\* The element at path gets new as its next sibling (lxml addnext).
RECURSIVE addnext(_, _, _)
addnext(node, path, new) ==
    IF Len(path) = 1
    THEN [node EXCEPT !.kids = SubSeq(@, 1, path[1]) \o <<new>>
                               \o SubSeq(@, path[1] + 1, Len(@))]
    ELSE [node EXCEPT !.kids[Head(path)] = addnext(@, Tail(path), new)]

\* The names of the pages of a view, in document order.
Sections(view) ==
    LET ps == SelectSeq(Descendants(view, <<>>), LAMBDA p : NodeAt(view, p).tag = "page")
    IN  [i \in 1..Len(ps) |-> NodeAt(view, ps[i]).name]

\* The names of the field elements of a view.
FieldsIn(view) ==
    {NodeAt(view, p).name :
        p \in {q \in Range(Descendants(view, <<>>)) : NodeAt(view, q).tag = "field"}}

\* tab.create_page(): a page labelled with the tab's name, shown when the
\* visibility field is set, holding the tab's relation field.
create_page(tab) ==
    Node("page", TabName(tab), get_visible_fieldname(tab),
         <<FieldNode(get_fieldname(tab))>>)

-----------------------------------------------------------------------------
(* View composition: _add_tab_pages *)

add_invisible_extra_field(view, extra_fields, fieldname) ==
    [view |-> append(view, Node("field", fieldname, "True", <<>>)),
     extra_fields |-> Append(extra_fields, fieldname)]

\* Faulty variant: the relation field's name is not put on extra_fields.
RECURSIVE AddPagesLoop_unlisted(_, _, _, _, _)
AddPagesLoop_unlisted(cls, view, extra_fields, last_page, ts) ==
    IF ts = <<>>
    THEN [cls |-> cls, view |-> view, extra_fields |-> extra_fields, raised |-> FALSE]
    ELSE LET tab == Head(ts)
             a == add_invisible_extra_field(view, extra_fields,
                                            get_visible_fieldname(tab))
         IN  AddPagesLoop_unlisted(add_field(cls, tab),
                                   addnext(a.view, last_page, create_page(tab)),
                                   a.extra_fields,
                                   [last_page EXCEPT ![Len(last_page)] = @ + 1],
                                   Tail(ts))

\* The loop of _add_tab_pages over the tabs ts; last_page is a path.
RECURSIVE AddPagesLoop(_, _, _, _, _)
AddPagesLoop(cls, view, extra_fields, last_page, ts) ==
    IF ts = <<>>
    THEN [cls |-> cls, view |-> view, extra_fields |-> extra_fields, raised |-> FALSE]
    ELSE LET tab == Head(ts)
             cls1 == add_field(cls, tab)
             a == add_invisible_extra_field(view, extra_fields,
                                            get_visible_fieldname(tab))
             extra1 == Append(a.extra_fields, get_fieldname(tab))
             tab_page == create_page(tab)
             view1 == addnext(a.view, last_page, tab_page)
             \* last_page = tab_page: the sibling just inserted
             next_page == [last_page EXCEPT ![Len(last_page)] = @ + 1]
         IN  AddPagesLoop(cls1, view1, extra1, next_page, Tail(ts))

\* Faulty variant: the id field is added without looking for one.
_add_tab_pages_second_id(cls, view, src, fail) ==
    LET last_page_nodes == xpath_last_pages(view)
        a == add_invisible_extra_field(view, <<>>, "id")
    IN  IF last_page_nodes = <<>>
        THEN [cls |-> cls, view |-> view, extra_fields |-> <<>>, raised |-> FALSE]
        ELSE IF fail = "get_tabs"
        THEN [cls |-> cls, view |-> a.view,
              extra_fields |-> a.extra_fields, raised |-> TRUE]
        ELSE AddPagesLoop(cls, a.view, a.extra_fields, last_page_nodes[1], src.tabs)

\* Faulty variant: the id field is added before the view is found to have
\* no page.
_add_tab_pages_marker_first(cls, view, src, fail) ==
    LET last_page_nodes == xpath_last_pages(view)
        a == IF xpath_field_id(view) = <<>>
             THEN add_invisible_extra_field(view, <<>>, "id")
             ELSE [view |-> view, extra_fields |-> <<>>]
    IN  IF last_page_nodes = <<>>
        THEN [cls |-> cls, view |-> a.view,
              extra_fields |-> a.extra_fields, raised |-> FALSE]
        ELSE IF fail = "get_tabs"
        THEN [cls |-> cls, view |-> a.view,
              extra_fields |-> a.extra_fields, raised |-> TRUE]
        ELSE AddPagesLoop(cls, a.view, a.extra_fields, last_page_nodes[1], src.tabs)

_add_tab_pages(cls, view, src, fail) ==
    LET last_page_nodes == xpath_last_pages(view)
    IN  IF last_page_nodes = <<>>
        THEN [cls |-> cls, view |-> view, extra_fields |-> <<>>, raised |-> FALSE]
        ELSE LET a == IF xpath_field_id(view) = <<>>
                      THEN add_invisible_extra_field(view, <<>>, "id")
                      ELSE [view |-> view, extra_fields |-> <<>>]
                 last_page == last_page_nodes[1]
             IN  IF fail = "get_tabs"
                 THEN [cls |-> cls, view |-> a.view,
                       extra_fields |-> a.extra_fields, raised |-> TRUE]
                 ELSE AddPagesLoop(cls, a.view, a.extra_fields, last_page, src.tabs)

-----------------------------------------------------------------------------
(* Layout fetch: fields_view_get *)

\* What fields_get tells about a field.
Description(field) == [type |-> field.type, string |-> field.string]

\* super().fields_view_get: the stored view and the descriptions of its fields.
super_fields_view_get(cls, base) ==
    [arch |-> base,
     fields |-> [n \in FieldsIn(base) \cap DOMAIN cls.fields |-> Description(cls.fields[n])]]

\* ir.ui.view postprocess_and_fields: the arch and the descriptions of the
\* fields the view names, from the model's fields.
postprocess_and_fields(cls, view) ==
    [arch |-> view,
     fields |-> [n \in FieldsIn(view) \cap DOMAIN cls.fields |-> Description(cls.fields[n])]]

\* Faulty variant: check_view_ids in the context is not looked at.
fields_view_get_unchecked(cls, src, base, view_type, check_view_ids, fail) ==
    LET result == super_fields_view_get(cls, base)
    IN  IF view_type # "form"
        THEN [cls |-> cls, raised |-> FALSE, result |-> result, extra_fields |-> <<>>]
        ELSE LET pages == _add_tab_pages(cls, result.arch, src, fail)
                 post == postprocess_and_fields(pages.cls, pages.view)
                 extra == Range(pages.extra_fields)
             IN  IF pages.raised \/ ~(extra \subseteq DOMAIN post.fields)
                 THEN [cls |-> pages.cls, raised |-> TRUE, result |-> result,
                       extra_fields |-> pages.extra_fields]
                 ELSE [cls |-> pages.cls, raised |-> FALSE,
                       result |-> [arch |-> post.arch,
                                   fields |-> [n \in DOMAIN result.fields \cup extra |->
                                                  IF n \in extra THEN post.fields[n]
                                                  ELSE result.fields[n]]],
                       extra_fields |-> pages.extra_fields]

fields_view_get(cls, src, base, view_type, check_view_ids, fail) ==
    LET result == super_fields_view_get(cls, base)
    IN  IF view_type # "form" \/ check_view_ids
        THEN [cls |-> cls, raised |-> FALSE, result |-> result, extra_fields |-> <<>>]
        ELSE LET pages == _add_tab_pages(cls, result.arch, src, fail)
                 post == postprocess_and_fields(pages.cls, pages.view)
                 extra == Range(pages.extra_fields)
             IN  IF pages.raised \/ ~(extra \subseteq DOMAIN post.fields)
                 THEN [cls |-> pages.cls, raised |-> TRUE, result |-> result,
                       extra_fields |-> pages.extra_fields]
                 ELSE [cls |-> pages.cls, raised |-> FALSE,
                       result |-> [arch |-> post.arch,
                                   fields |-> [n \in DOMAIN result.fields \cup extra |->
                                                  IF n \in extra THEN post.fields[n]
                                                  ELSE result.fields[n]]],
                       extra_fields |-> pages.extra_fields]

\* Stored form and tree views of res.partner.
BaseLayouts ==
    { Form(<<FieldNode("name")>>),
      Form(<<FieldNode("name"), Notebook(<<Page("Contacts", <<>>)>>)>>),
      Form(<<FieldNode("id"),
             Notebook(<<Page("Contacts", <<>>), Page("Sales", <<FieldNode("name")>>)>>)>>),
      Form(<<Notebook(<<Page("Contacts", <<>>), Page("Sales", <<>>)>>),
             Notebook(<<Page("Notes", <<>>)>>)>>),
      Form(<<Notebook(<<Page("Contacts", <<Notebook(<<Page("Addresses", <<>>)>>)>>),
                        Page("Sales", <<>>)>>)>>) }

ViewTypes == {"form", "tree"}

\* Arguments of browse: no id, one id.
BrowseArgs == {<<>>, <<1>>}

-----------------------------------------------------------------------------
(* Visibility of the tabs: _compute_tabs_visibility *)

\* The partners of the database: the attributes the computation depends on.
Partners ==
    <<[is_company |-> TRUE, category_id |-> {}],
      [is_company |-> FALSE, category_id |-> {"Member"}]>>

\* The restrictions a tab carries: the contact type and the category its
\* partners must have ("" for none).
TabRestrictions ==
    <<[contact_type |-> "c", category |-> ""],
      [contact_type |-> "", category |-> ""],
      [contact_type |-> "", category |-> "Member"],
      [contact_type |-> "p", category |-> ""],
      [contact_type |-> "", category |-> ""]>>

\* tab.compute_visibility(this)
compute_visibility(tab, this) ==
    LET r == TabRestrictions[tab]
    IN  /\ r.contact_type = "c" => this.is_company
        /\ r.contact_type = "p" => ~this.is_company
        /\ r.category # "" => r.category \in this.category_id

\* The inner loop of _compute_tabs_visibility: the assignments
\* this[name] = value for the records ids; assigning a name that is not in
\* _fields raises KeyError.
RECURSIVE AssignLoop(_, _, _, _)
AssignLoop(cls, tab, ids, out) ==
    IF ids = <<>> \/ out.keyerror # "" THEN out
    ELSE LET name == get_visible_fieldname(tab)
             this == Partners[Head(ids)]
         IN  IF name \notin DOMAIN cls.fields
             THEN [out EXCEPT !.keyerror = name]
             ELSE AssignLoop(cls, tab, Tail(ids),
                             [out EXCEPT !.assigned =
                                 @ \cup {<<Head(ids), name, compute_visibility(tab, this)>>}])

\* The outer loop of _compute_tabs_visibility over the tabs ts.
RECURSIVE VisibilityLoop(_, _, _, _)
VisibilityLoop(cls, ts, ids, out) ==
    IF ts = <<>> \/ out.keyerror # "" THEN out
    ELSE VisibilityLoop(cls, Tail(ts), ids, AssignLoop(cls, Head(ts), ids, out))

\* self is the sequence of the ids of the records; the result holds the
\* assignments made and the name whose assignment raised ("" if none).
_compute_tabs_visibility(cls, src, self, fail) ==
    IF fail = "get_tabs"
    THEN [raised |-> TRUE, assigned |-> {}, keyerror |-> ""]
    ELSE LET out == VisibilityLoop(cls, src.tabs, self,
                                   [assigned |-> {}, keyerror |-> ""])
         IN  [raised |-> out.keyerror # "", assigned |-> out.assigned,
              keyerror |-> out.keyerror]

\* Recordsets a computation runs on.
Recordsets == {<<>>, <<1>>, <<1, 2>>}

-----------------------------------------------------------------------------
(* Specification *)

BaseFields ==
    [n \in {"id", "name"} |-> FieldObj(IF n = "id" THEN "integer" ELSE "char", 0, n, "")]

\* The server processes (workers): each loads its own ResPartner class.
Procs == {"worker1", "worker2"}

\* A process after start-up.  pending records that the source changed and
\* the process has not read the revision since.
FreshProc ==
    [tab_modification_sequence |-> 0, fields |-> BaseFields, pending |-> FALSE]

\* The threads of one process (one request each).
Threads == {"thread1", "thread2"}

\* A thread outside _update_tab_fields.
IdleThread ==
    [pc |-> "idle", src |-> [revision |-> 0, tabs |-> <<>>], todo |-> <<>>,
     overwrote |-> FALSE]

Init ==
    /\ tabs = <<>>
    /\ revision \in InitRevisions
    /\ _tab_modification_sequence = 0
    /\ _fields = BaseFields
    /\ ret = [op |-> "init"]
    /\ procs = [p \in Procs |-> FreshProc]
    /\ threads = [t \in Threads |-> IdleThread]

SetCls(cls) ==
    /\ _tab_modification_sequence' = cls.tab_modification_sequence
    /\ _fields' = cls.fields

Browse ==
    \E arg \in BrowseArgs, fail \in {"none", "get_sequence", "get_tabs"} :
        \E r \in {browse(Cls, Source, arg, fail)} :
            /\ SetCls(r.cls)
            /\ ret' = [op |-> "browse",
                       status |-> IF r.raised THEN "raised" ELSE "ok",
                       fail |-> fail,
                       walked |-> r.walked,
                       written |-> r.cls.written,
                       repeat |-> (ret.op = "browse" /\ ret.status = "ok"),
                       arg |-> arg,
                       records |-> r.records]
            /\ UNCHANGED <<tabs, revision, procs, threads>>

FieldsViewGet ==
    \E base \in BaseLayouts, view_type \in ViewTypes, check_view_ids \in BOOLEAN,
       fail \in {"none", "get_tabs"} :
        \E r \in {fields_view_get(Cls, Source, base, view_type, check_view_ids, fail)} :
            \* the source is only asked when the view is composed
            /\ fail = "get_tabs" => view_type = "form" /\ ~check_view_ids
            /\ SetCls(r.cls)
            /\ ret' = IF r.raised
                      THEN [op |-> "fields_view_get", status |-> "raised",
                            written |-> r.cls.written]
                      ELSE [op |-> "fields_view_get", status |-> "ok",
                            view_type |-> view_type,
                            check_view_ids |-> check_view_ids,
                            base |-> super_fields_view_get(Cls, base),
                            result |-> r.result,
                            extra_fields |-> r.extra_fields,
                            written |-> r.cls.written]
            /\ UNCHANGED <<tabs, revision, procs, threads>>

\* The computation runs when a field it computes is read.
ComputeTabsVisibility ==
    /\ \E n \in DOMAIN _fields : _fields[n].compute = "_compute_tabs_visibility"
    /\ \E self \in Recordsets, fail \in {"none", "get_tabs"} :
        \E r \in {_compute_tabs_visibility(Cls, Source, self, fail)} :
            /\ ret' = [op |-> "_compute_tabs_visibility",
                       status |-> IF r.raised THEN "raised" ELSE "ok",
                       fail |-> fail,
                       self |-> self,
                       assigned |-> r.assigned,
                       keyerror |-> r.keyerror]
            /\ UNCHANGED <<tabs, revision, _tab_modification_sequence, _fields,
                           procs, threads>>

InsertAt(s, i, x) == SubSeq(s, 1, i - 1) \o <<x>> \o SubSeq(s, i, Len(s))
RemoveAt(s, i) == SubSeq(s, 1, i - 1) \o SubSeq(s, i + 1, Len(s))
SwapAt(s, i) == [s EXCEPT ![i] = s[i + 1], ![i + 1] = s[i]]

SourceChanged(newtabs) ==
    /\ revision < MaxRevision
    /\ tabs' = newtabs
    /\ revision' = revision + 1
    /\ ret' = [op |-> "source"]
    /\ UNCHANGED <<_tab_modification_sequence, _fields, procs, threads>>

SourceAdd ==
    \E id \in TabIds \ Range(tabs), i \in 1..(Len(tabs) + 1) :
        SourceChanged(InsertAt(tabs, i, id))

SourceRemove ==
    \E i \in 1..Len(tabs) : SourceChanged(RemoveAt(tabs, i))

SourceReorder ==
    \E i \in 1..(Len(tabs) - 1) : SourceChanged(SwapAt(tabs, i))

Next ==
    \/ Browse
    \/ FieldsViewGet
    \/ ComputeTabsVisibility
    \/ SourceAdd
    \/ SourceRemove
    \/ SourceReorder

Spec == Init /\ [][Next]_vars

-----------------------------------------------------------------------------
(* Several processes *)

\* The class state of process p, as handed to the methods.
ClsOf(p) ==
    [tab_modification_sequence |-> procs[p].tab_modification_sequence,
     fields |-> procs[p].fields,
     written |-> <<>>]

\* Faulty variant: the class attributes are one object for all processes.
SetClsOf_shared(ps, p, cls) ==
    [q \in DOMAIN ps |->
        [ps[q] EXCEPT !.tab_modification_sequence = cls.tab_modification_sequence,
                      !.fields = cls.fields]]

\* type(self) and cls are the class object of the process the call runs in.
SetClsOf(ps, p, cls) ==
    [ps EXCEPT ![p].tab_modification_sequence = cls.tab_modification_sequence,
               ![p].fields = cls.fields]

\* browse in process p.  path tells how _update_tab_fields went: "cheap",
\* "full", "full_raised" (get_tabs raised) or "raised" (get_sequence raised).
BrowseIn(p) ==
    \E fail \in {"none", "get_sequence", "get_tabs"} :
        \E r \in {browse(ClsOf(p), Source, <<>>, fail)} :
            /\ procs' = [SetClsOf(procs, p, r.cls) EXCEPT
                            ![p].pending = @ /\ fail = "get_sequence"]
            /\ ret' = [op |-> "browse",
                       proc |-> p,
                       path |-> IF r.walked THEN "full"
                                ELSE IF ~r.raised THEN "cheap"
                                ELSE IF fail = "get_tabs" THEN "full_raised"
                                ELSE "raised"]
            /\ UNCHANGED <<tabs, revision, _tab_modification_sequence, _fields, threads>>

BrowseProcs == \E p \in Procs : BrowseIn(p)

\* The tab sources one change away from the present one.
ChangedTabs ==
    {InsertAt(tabs, i, id) : i \in 1..(Len(tabs) + 1), id \in TabIds \ Range(tabs)}
        \cup {RemoveAt(tabs, i) : i \in 1..Len(tabs)}
        \cup {SwapAt(tabs, i) : i \in 1..(Len(tabs) - 1)}

\* A change of the source is seen by no process until it reads the revision.
SourceChangedProcs ==
    \E newtabs \in ChangedTabs :
        /\ revision < MaxRevision
        /\ tabs' = newtabs
        /\ revision' = revision + 1
        /\ ret' = [op |-> "source"]
        /\ procs' = [p \in Procs |-> [procs[p] EXCEPT !.pending = TRUE]]
        /\ UNCHANGED <<_tab_modification_sequence, _fields, threads>>

NextProcs ==
    \/ BrowseProcs
    \/ SourceChangedProcs

SpecProcs == Init /\ [][NextProcs]_vars

-----------------------------------------------------------------------------
(* Two threads of one process in _update_tab_fields *)

\* The threads share the class attributes; each step is one statement of
\* lines 44-62 and 104-123.  A thread reads the source in its own
\* transaction: src is the snapshot it got with get_sequence().

\* line 57: the call starts and reads the revision.
GetSequence(t) ==
    /\ threads[t].pc = "idle"
    /\ threads' = [threads EXCEPT ![t] = [pc |-> "compare", src |-> Source,
                                          todo |-> <<>>, overwrote |-> FALSE]]
    /\ UNCHANGED <<tabs, revision, _tab_modification_sequence, _fields, ret, procs>>

\* line 58: the comparison with the cached revision; equal returns False
\* and _update_tab_fields returns without looking at the tabs.
Compare(t) ==
    /\ threads[t].pc = "compare"
    /\ threads' = [threads EXCEPT ![t].pc =
                      IF threads[t].src.revision = _tab_modification_sequence
                      THEN "done" ELSE "set"]
    /\ UNCHANGED <<tabs, revision, _tab_modification_sequence, _fields, ret, procs>>

\* lines 61 and 48: the cache is set, then the tabs are fetched.
SetSequence(t) ==
    /\ threads[t].pc = "set"
    /\ _tab_modification_sequence' =
          _set_tab_modification_sequence(Cls, threads[t].src.revision).tab_modification_sequence
    /\ threads' = [threads EXCEPT ![t].pc = "loop", ![t].todo = threads[t].src.tabs]
    /\ UNCHANGED <<tabs, revision, _fields, ret, procs>>

\* lines 49-51: the next tab and the test of its field name.
LoopTest(t) ==
    /\ threads[t].pc = "loop"
    /\ threads' = [threads EXCEPT ![t] =
                      IF @.todo = <<>> THEN [@ EXCEPT !.pc = "done"]
                      ELSE IF get_fieldname(Head(@.todo)) \notin DOMAIN _fields
                      THEN [@ EXCEPT !.pc = "add_visible"]
                      ELSE [@ EXCEPT !.todo = Tail(@)]]
    /\ UNCHANGED <<tabs, revision, _tab_modification_sequence, _fields, ret, procs>>

\* line 113: add_field binds the visible field.
AddVisible(t) ==
    LET tab == Head(threads[t].todo)
        name == get_visible_fieldname(tab)
        visible_field == FieldObj("boolean", tab, "", "_compute_tabs_visibility")
    IN  /\ threads[t].pc = "add_visible"
        /\ _fields' = _add_field(Cls, name, visible_field).fields
        /\ threads' = [threads EXCEPT ![t].pc = "add_relation",
                                      ![t].overwrote = @ \/ name \in DOMAIN _fields]
        /\ UNCHANGED <<tabs, revision, _tab_modification_sequence, ret, procs>>

\* line 123: add_field binds the relation field; the loop goes on.
AddRelation(t) ==
    LET tab == Head(threads[t].todo)
        name == get_fieldname(tab)
        tab_field == FieldObj("one2many", tab, TabName(tab), "")
    IN  /\ threads[t].pc = "add_relation"
        /\ _fields' = _add_field(Cls, name, tab_field).fields
        /\ threads' = [threads EXCEPT ![t].pc = "loop",
                                      ![t].todo = Tail(@),
                                      ![t].overwrote = @ \/ name \in DOMAIN _fields]
        /\ UNCHANGED <<tabs, revision, _tab_modification_sequence, ret, procs>>

\* _update_tab_fields returns to browse.
Return(t) ==
    /\ threads[t].pc = "done"
    /\ threads' = [threads EXCEPT ![t] = IdleThread]
    /\ ret' = [op |-> "_update_tab_fields", thread |-> t]
    /\ UNCHANGED <<tabs, revision, _tab_modification_sequence, _fields, procs>>

NextRace ==
    \/ \E t \in Threads : GetSequence(t)
    \/ \E t \in Threads : Compare(t)
    \/ \E t \in Threads : SetSequence(t)
    \/ \E t \in Threads : LoopTest(t)
    \/ \E t \in Threads : AddVisible(t)
    \/ \E t \in Threads : AddRelation(t)
    \/ \E t \in Threads : Return(t)
    \/ SourceAdd
    \/ SourceRemove
    \/ SourceReorder

SpecRace == Init /\ [][NextRace]_vars

-----------------------------------------------------------------------------
(* Properties *)

\* The tabs of the source whose relation field is not in the schema.
Missing == {t \in Range(tabs) : get_fieldname(t) \notin DOMAIN _fields}

\* The last call was a layout fetch that composed the view and returned.
Composed(r) ==
    /\ r.op = "fields_view_get" /\ r.status = "ok"
    /\ r.view_type = "form" /\ ~r.check_view_ids

TabLabels(ts) == [i \in 1..Len(ts) |-> TabName(ts[i])]

\* C1: a browse that returns with the cached revision equal to the source's
\* takes the cheap path and binds no field, whatever the source's tabs; with
\* the cached revision different it walks the tabs, binds exactly the pairs
\* of the tabs whose fieldname is not in the schema, leaves every other field
\* as it was, and leaves the cache equal to the revision it read.
C1_RevisionTriggeredSync ==
    [][ (ret'.op = "browse" /\ ret'.status = "ok") =>
          IF _tab_modification_sequence = revision
          THEN /\ ~ret'.walked
               /\ ret'.written = <<>>
               /\ _fields' = _fields
               /\ _tab_modification_sequence' = _tab_modification_sequence
          ELSE /\ ret'.walked
               /\ Range(ret'.written) = PairNames(Missing)
               /\ DOMAIN _fields' = DOMAIN _fields \cup PairNames(Missing)
               /\ \A n \in DOMAIN _fields : _fields'[n] = _fields[n]
               /\ _tab_modification_sequence' = revision ]_vars

\* C1 witness: a browse returned on the cheap path while a tab of the source
\* has no field in the schema.
C1_Witness ==
    /\ ret.op = "browse" /\ ret.status = "ok" /\ ~ret.walked
    /\ Missing # {}

\* C2: a browse right after a browse that returned, with no change of the
\* source in between, makes no _add_field call and leaves the schema and the
\* cached revision as they were.
C2_ReconcileIdempotent ==
    [][ (ret.op = "browse" /\ ret.status = "ok" /\ ret'.op = "browse") =>
          /\ ret'.written = <<>>
          /\ _fields' = _fields
          /\ _tab_modification_sequence' = _tab_modification_sequence ]_vars

\* C2 witness: the second of two browses in succession has returned, the
\* source holding tabs.
C2_Witness ==
    /\ ret.op = "browse" /\ ret.status = "ok" /\ ret.repeat
    /\ tabs # <<>>

\* C3 as stated: no call ever binds a field name that is already in the
\* schema.
C3_NeverOverwritten ==
    [][ ret'.op \in {"browse", "fields_view_get"} =>
          Range(ret'.written) \cap DOMAIN _fields = {} ]_vars

\* C3 amended: browse never binds a name already in the schema; a layout
\* fetch that composes a view with pages binds anew the pair of every tab of
\* the source, present or not, and nothing else; the fields that are no pair
\* of a tab of the source are never replaced.
C3_OnlyComposeRebinds ==
    [][ /\ ret'.op = "browse" => Range(ret'.written) \cap DOMAIN _fields = {}
        /\ ret'.op = "fields_view_get" =>
              Range(ret'.written) \subseteq PairNames(Range(tabs))
        /\ (Composed(ret') /\ Sections(ret'.base.arch) # <<>>) =>
              Range(ret'.written) = PairNames(Range(tabs))
        /\ \A n \in DOMAIN _fields \ PairNames(Range(tabs)) :
              n \in DOMAIN _fields' /\ _fields'[n] = _fields[n] ]_vars

\* C3 witness: a browse walked the tabs and skipped one whose pair was
\* already in the schema.
C3_Witness ==
    /\ ret.op = "browse" /\ ret.status = "ok" /\ ret.walked
    /\ \E t \in Range(tabs) : get_fieldname(t) \notin Range(ret.written)

\* C4: a browse that raises leaves the schema and the cached revision as
\* they were, and after one that raised while fetching the tabs, the next
\* browse that reaches the source walks the tabs.
C4_FailedReconcileCommitsNothing ==
    [][ /\ (ret'.op = "browse" /\ ret'.status = "raised") =>
              /\ _fields' = _fields
              /\ _tab_modification_sequence' = _tab_modification_sequence
        /\ (/\ ret.op = "browse" /\ ret.status = "raised" /\ ret.fail = "get_tabs"
            /\ ret'.op = "browse" /\ ret'.status = "ok") => ret'.walked ]_vars

\* C5: once a browse has returned, the schema holds the pair of every tab
\* of the source (the source has not changed since that browse).
C5_BoundedStaleness ==
    (ret.op = "browse" /\ ret.status = "ok") =>
        PairNames(Range(tabs)) \subseteq DOMAIN _fields

\* C6: composing a view that has pages yields the pages it had, in their
\* order, followed by the pages of the tabs in source order.
C6_OrderedComposition ==
    (Composed(ret) /\ Sections(ret.base.arch) # <<>>) =>
        Sections(ret.result.arch) = Sections(ret.base.arch) \o TabLabels(tabs)

\* C7: when a layout fetch outside validation mode has returned, the cached
\* revision equals the revision of the source.
C7_LayoutFetchReconciles ==
    Composed(ret) => _tab_modification_sequence = revision

\* C8: composing a view without pages returns the view and its fields
\* unchanged, an empty list of extra fields, and binds no field.
C8_NoTabLayout ==
    (Composed(ret) /\ Sections(ret.base.arch) = <<>>) =>
        /\ ret.result = ret.base
        /\ ret.extra_fields = <<>>
        /\ ret.written = <<>>

\* C8 witness: a view without pages was composed while the source held tabs.
C8_Witness ==
    /\ Composed(ret) /\ Sections(ret.base.arch) = <<>>
    /\ tabs # <<>>

\* C9: a layout fetch with check_view_ids set returns what the stored view
\* gives, arch and fields, and binds no field.
C9_ValidationSkipsComposition ==
    (ret.op = "fields_view_get" /\ ret.status = "ok" /\ ret.check_view_ids) =>
        /\ ret.result = ret.base
        /\ ret.extra_fields = <<>>
        /\ ret.written = <<>>

\* C9 witness: a form view with pages was fetched with check_view_ids set
\* while the source held tabs.
C9_Witness ==
    /\ ret.op = "fields_view_get" /\ ret.status = "ok"
    /\ ret.check_view_ids /\ ret.view_type = "form"
    /\ Sections(ret.base.arch) # <<>>
    /\ tabs # <<>>

\* C10: no step removes a field name from the schema, and a composed view
\* has a tab page only for tabs that are in the source.
C10_AdditiveOnly ==
    [][ /\ DOMAIN _fields \subseteq DOMAIN _fields'
        /\ Composed(ret') =>
              \A t \in TabIds :
                  TabName(t) \in Range(Sections(ret'.result.arch)) =>
                      t \in Range(tabs') ]_vars

\* C10 witness: a view with pages was composed while the schema still held
\* the pair of a tab that is no longer in the source.
C10_Witness ==
    /\ Composed(ret) /\ Sections(ret.base.arch) # <<>>
    /\ \E t \in TabIds \ Range(tabs) :
          /\ PairNames({t}) \subseteq DOMAIN _fields
          /\ TabName(t) \notin Range(Sections(ret.result.arch))

\* C12: when browse has returned records, _update_tab_fields has run to its
\* end (the cached revision is the source's) and the records are those of
\* the ids asked for; when _update_tab_fields raised, browse raised and
\* returned no records.
C12_BrowseReconcilesFirst ==
    ret.op = "browse" =>
        IF ret.status = "ok"
        THEN /\ _tab_modification_sequence = revision
             /\ ret.records = super_browse(ret.arg)
        ELSE /\ ret.fail \in {"get_sequence", "get_tabs"}
             /\ ret.records = <<>>

\* C12 witness: a browse of one id returned its record after walking the
\* tabs.
C12_Witness ==
    /\ ret.op = "browse" /\ ret.status = "ok" /\ ret.walked
    /\ ret.arg = <<1>> /\ ret.records.ids = <<1>>
    /\ tabs # <<>>

\* C14: the first call of a process is a browse that returns: it has walked
\* the tabs, whatever revision the source reports.
C14_SentinelStart ==
    [][ (ret.op = "init" /\ ret'.op = "browse" /\ ret'.status = "ok") =>
          ret'.walked ]_vars

\* C15: after composing a view with pages, extra_fields lists both names of
\* the pair of every tab of the source, every listed name is a field of the
\* schema, and the returned fields hold its description.
C15_CompleteExtraFields ==
    (Composed(ret) /\ Sections(ret.base.arch) # <<>>) =>
        /\ PairNames(Range(tabs)) \subseteq Range(ret.extra_fields)
        /\ \A n \in Range(ret.extra_fields) :
              /\ n \in DOMAIN _fields
              /\ n \in DOMAIN ret.result.fields
              /\ ret.result.fields[n] = Description(_fields[n])

\* C15 witness: a view with pages was composed for more than one tab.
C15_Witness ==
    /\ Composed(ret) /\ Sections(ret.base.arch) # <<>>
    /\ Len(tabs) > 1

\* C16: after composing a view with pages the view has an id field; if the
\* stored view had one, none was added and "id" is not on extra_fields; if
\* it had none, one invisible id field was added and "id" is listed once.
C16_RecordIdentityMarker ==
    (Composed(ret) /\ Sections(ret.base.arch) # <<>>) =>
        LET before == xpath_field_id(ret.base.arch)
            after == xpath_field_id(ret.result.arch)
            listed == SelectSeq(ret.extra_fields, LAMBDA n : n = "id")
        IN  IF before # <<>>
            THEN Len(after) = Len(before) /\ listed = <<>>
            ELSE /\ Len(after) = 1
                 /\ NodeAt(ret.result.arch, after[1]).invisible = "True"
                 /\ listed = <<"id">>

\* C16 witness: a view with pages and an id field was composed while the
\* source held tabs.
C16_Witness ==
    /\ Composed(ret) /\ Sections(ret.base.arch) # <<>>
    /\ xpath_field_id(ret.base.arch) # <<>>
    /\ tabs # <<>>

\* C19: between calls, the relation field of a tab is in the schema exactly
\* when its visibility field is.
C19_PairIntegrity ==
    \A t \in TabIds :
        get_fieldname(t) \in DOMAIN _fields
            <=> get_visible_fieldname(t) \in DOMAIN _fields

\* C19 witness: a browse walked the tabs and bound a pair, while the pair of
\* another tab is not in the schema.
C19_Witness ==
    /\ ret.op = "browse" /\ ret.status = "ok" /\ ret.walked
    /\ ret.written # <<>>
    /\ \E t \in TabIds : PairNames({t}) \cap DOMAIN _fields = {}

\* C17: a visibility computation that reaches the source assigns, for every
\* record it runs on and every tab of the source, the tab's visibility field
\* to compute_visibility(tab, record), and assigns nothing else.
C17_VisibilityPassFillsFlags ==
    (ret.op = "_compute_tabs_visibility" /\ ret.fail = "none") =>
        /\ ret.status = "ok"
        /\ ret.assigned =
              {<<id, get_visible_fieldname(t), compute_visibility(t, Partners[id])>> :
                  id \in Range(ret.self), t \in Range(tabs)}

\* C18: a visibility computation never assigns a visibility field whose
\* name is not in the schema.
C18_VisibilityOnlyKnownFields ==
    ret.op = "_compute_tabs_visibility" => ret.keyerror = ""

\* C11: a browse in one process leaves the revision cache and the schema of
\* every other process as they were; and a process whose source changed since
\* it last read the revision takes the full path (fetches the tabs) on its
\* next browse that reads the revision, whatever the other processes did.
C11_ProcessLocalCache ==
    [][ ret'.op = "browse" =>
          /\ \A q \in Procs \ {ret'.proc} :
                /\ procs'[q].tab_modification_sequence = procs[q].tab_modification_sequence
                /\ procs'[q].fields = procs[q].fields
                /\ procs'[q].pending = procs[q].pending
          /\ (procs[ret'.proc].pending /\ ret'.path # "raised") =>
                ret'.path \in {"full", "full_raised"} ]_vars

\* A process walks the tabs although another process is already synchronised
\* with the same revision.
C11_Witness ==
    /\ ret.op = "browse"
    /\ ret.path = "full"
    /\ tabs # <<>>
    /\ \E q \in Procs \ {ret.proc} :
          /\ procs[q].tab_modification_sequence = revision
          /\ ~procs[q].pending
          /\ PairNames(Range(tabs)) \subseteq DOMAIN procs[q].fields
    /\ PairNames(Range(tabs)) \subseteq DOMAIN procs[ret.proc].fields

\* C13: with two threads of one process in _update_tab_fields, no thread
\* binds a name that is already in the schema, and when a call is about to
\* return the schema holds the pair of every tab of the snapshot it read.
C13_SameProcessRace ==
    \A t \in Threads :
        /\ ~threads[t].overwrote
        /\ threads[t].pc = "done" =>
              PairNames(Range(threads[t].src.tabs)) \subseteq DOMAIN _fields

====
